---------------------------- MODULE Spec2Model ----------------------------
(***************************************************************************)
(* A model of discord/poll.py: Poll, PollAnswer, PollAnswerCount and the   *)
(* two HTTP calls they make (get_poll_answer_voters, end_poll).            *)
(*                                                                         *)
(* Python values are represented as follows.                               *)
(*   dict            a function from key strings to values; a key that is  *)
(*                   absent from the dict is absent from the DOMAIN        *)
(*   None / MISSING  the records None and MISSING                          *)
(*   Optional[int],  the record N(i) when present (so that it can be       *)
(*   JSON numbers    compared with None), S(s) for a JSON decimal string   *)
(*   list            a sequence                                            *)
(*   object          a record of its slots (leading underscores dropped)   *)
(***************************************************************************)
EXTENDS Integers, Sequences, FiniteSets, Bags, TLC

None == [null |-> TRUE]
MISSING == [missing |-> TRUE]
N(i) == [int |-> i]
S(s) == [str |-> s]

\* ------------------------------------------------------------------ bounds
\* Longest answers list and answer_counts list of an inbound payload.
MaxPayloadAnswers == 2
\* add_answer is not called once the poll holds this many answers.
MaxAnswers == 2
\* How far below 0 and above MaxAnswers the ids given to get_answer go.
IdSlack == 2
\* How far around the two ends of 0..100 the limits given to users() go.
LimitSlack == 1
\* The most coroutines suspended at their await at a time.
MaxTasks == 2

\* ------------------------------------------------------- Python primitives
\* int(v): a Python int is returned as it is, a decimal string is parsed.
MaxSnowflake == 9
ParseInt(s) == CHOOSE n \in 0..MaxSnowflake : ToString(n) = s
PyInt(v) == IF "int" \in DOMAIN v THEN v.int ELSE ParseInt(v.str)

\* dict.get(key, default)
Get(d, key, default) == IF key \in DOMAIN d THEN d[key] ELSE default

\* Truth value of an Optional[dict]: None and the empty dict are false.
TruthyDict(d) == d # None /\ DOMAIN d # {}

\* Truth value of an Optional[int]: None and 0 are false.
TruthyInt(v) == v # None /\ v.int # 0

\* list[i] with Python's indexing: a negative i counts from the end, and an
\* index outside -len..len-1 raises IndexError.
IndexError == [raised |-> "IndexError"]
PyIndex(list, i) ==
    IF i >= 0
    THEN IF i < Len(list) THEN list[i + 1] ELSE IndexError
    ELSE IF Len(list) + i >= 0 THEN list[Len(list) + i + 1] ELSE IndexError

\* ----------------------------------------------------------------- emoji
\* PartialEmoji(name=, id=)
PartialEmoji(name, id) == [name |-> name, id |-> id]

\* str(emoji) of an emoji object. The emoji type is defined outside this
\* file; it is an (id, name) pair that converts to {id?, name}, serialized
\* as its name alone, or as its id and its name when it has an id. The
\* string written under 'name' is therefore the emoji's name.
PartialEmoji_str(e) == e.name

\* An argument of add_answer is None, [str |-> s] or a PartialEmoji record;
\* str() of a plain str is the str itself.
IsStr(e) == "str" \in DOMAIN e
IsEmojiObject(e) == "name" \in DOMAIN e
EmojiStr(e) == IF IsStr(e) THEN e.str ELSE PartialEmoji_str(e)

\* `if emoji:` -- None and the empty string are false, an object is true.
TruthyEmojiArg(e) == e # None /\ (IsStr(e) => e.str # "")

\* try_enum(PollLayoutType, value): the member with that value, or a
\* placeholder that keeps the raw value.
try_enum(value) ==
    IF value = 1 THEN [name |-> "default", value |-> 1]
    ELSE [name |-> "unknown_" \o ToString(value), value |-> value]

PollLayoutType_default == try_enum(1)

\* Optional[List[...]]: None, or the list boxed so it compares with None.
L(list) == [list |-> list]

\* ------------------------------------------------- outcome of an operation
\* What a call did: the requests it sent to the HTTP client, in order, and
\* whether it returned a value, raised, or is suspended at an `await` for
\* the response to its last request.
Return(value, requests) ==
    [kind |-> "return", error |-> "", value |-> value, requests |-> requests]
Raise(error, requests) ==
    [kind |-> "raise", error |-> error, value |-> None, requests |-> requests]
Await(requests) ==
    [kind |-> "await", error |-> "", value |-> None, requests |-> requests]

HTTPException == [raised |-> "HTTPException"]

\* http.get_poll_answer_voters(channel_id, message_id, answer_id, after, limit)
get_poll_answer_voters(channel_id, message_id, answer_id, after, limit) ==
    [route |-> "get_poll_answer_voters", channel_id |-> channel_id,
     message_id |-> message_id, answer_id |-> answer_id,
     after |-> after, limit |-> limit]

\* http.end_poll(channel_id, message_id)
end_poll(channel_id, message_id) ==
    [route |-> "end_poll", channel_id |-> channel_id, message_id |-> message_id]

\* User(state=, data=)
User(state, data) == [state |-> state, data |-> data]

\* [User(state=state, data=user_data) for user_data in data.get('users')]
Users(state, users) == [i \in 1..Len(users) |-> User(state, users[i])]

\* after.id if after is not MISSING else MISSING
AfterId(after) == IF after # MISSING THEN N(after.id) ELSE MISSING

\* --------------------------------------------------------- PollAnswerCount
PollAnswerCount_init(state, message, data) ==
    [state |-> state, message |-> message,
     id |-> PyInt(data.id), me_voted |-> data.me_voted, count |-> data.count]

\* PollAnswerCount.users up to its await: the request is sent without any
\* validation.
PollAnswerCount_users(self, after, limit) ==
    Await(<<get_poll_answer_voters(self.message.channel.id, self.message.id,
                                   self.id, AfterId(after), limit)>>)

\* PollAnswerCount.users from its await on: the HTTP client raises, or its
\* data becomes the list of users.
PollAnswerCount_users_resume(self, requests, response) ==
    IF response = HTTPException
    THEN Raise("HTTPException", requests)
    ELSE Return(L(Users(self.state, response.users)), requests)

\* -------------------------------------------------------------- PollAnswer
PollMedia(text, emoji) == [text |-> text, emoji |-> emoji]

PollAnswer_init(data, message) ==
    [state |-> IF message # None THEN message.state ELSE None,
     message |-> message,
     media |-> PollMedia(data.poll_media.text,
                         Get(data.poll_media, "emoji", None)),
     id |-> PyInt(data.answer_id)]

PollAnswer_from_params(id, text, emoji, message) ==
    LET poll_media ==
            IF TruthyEmojiArg(emoji)
            THEN [text |-> text,
                  emoji |-> [id |-> IF IsEmojiObject(emoji) THEN emoji.id
                                    ELSE None,
                             name |-> EmojiStr(emoji)]]
            ELSE [text |-> text]
        payload == [answer_id |-> N(id), poll_media |-> poll_media]
    IN  PollAnswer_init(payload, message)

PollAnswer_text(self) == self.media.text

PollAnswer_emoji(self) ==
    IF TruthyDict(self.media.emoji)
    THEN LET emoji_id == IF Get(self.media.emoji, "id", None) # None
                         THEN N(PyInt(self.media.emoji.id))
                         ELSE None
         IN  PartialEmoji(self.media.emoji.name, emoji_id)
    ELSE None

\* PollAnswer._to_dict without the emoji's id.
PollAnswer_to_dict_NoId(self) ==
    LET emoji == PollAnswer_emoji(self) IN
    IF emoji # None
    THEN [text |-> PollAnswer_text(self),
          emoji |-> [name |-> PartialEmoji_str(emoji)]]
    ELSE [text |-> PollAnswer_text(self)]

PollAnswer_to_dict(self) ==
    LET emoji == PollAnswer_emoji(self) IN
    IF emoji # None
    THEN IF TruthyInt(emoji.id)
         THEN [text |-> PollAnswer_text(self),
               emoji |-> [name |-> PartialEmoji_str(emoji), id |-> emoji.id]]
         ELSE [text |-> PollAnswer_text(self),
               emoji |-> [name |-> PartialEmoji_str(emoji)]]
    ELSE [text |-> PollAnswer_text(self)]

\* PollAnswer.users with the limit validated before the message.
PollAnswer_users_LimitFirst(self, after, limit) ==
    IF 0 > limit \/ limit > 100
    THEN Raise("ValueError", <<>>)
    ELSE IF self.message = None \/ self.state = None
    THEN Raise("RuntimeError", <<>>)
    ELSE Await(<<get_poll_answer_voters(self.message.channel.id,
                     self.message.id, self.id, AfterId(after), limit)>>)

\* PollAnswer.users with the limit's two ends excluded.
PollAnswer_users_ExclusiveEnds(self, after, limit) ==
    IF self.message = None \/ self.state = None
    THEN Raise("RuntimeError", <<>>)
    ELSE IF 0 >= limit \/ limit >= 100
    THEN Raise("ValueError", <<>>)
    ELSE Await(<<get_poll_answer_voters(self.message.channel.id,
                     self.message.id, self.id, AfterId(after), limit)>>)

\* PollAnswer.users up to its await: the two validations, then the request.
PollAnswer_users(self, after, limit) ==
    IF self.message = None \/ self.state = None
    THEN Raise("RuntimeError", <<>>)
    ELSE IF 0 > limit \/ limit > 100
    THEN Raise("ValueError", <<>>)
    ELSE Await(<<get_poll_answer_voters(self.message.channel.id,
                     self.message.id, self.id, AfterId(after), limit)>>)

\* PollAnswer.users from its await on.
PollAnswer_users_resume(self, requests, response) ==
    IF response = HTTPException
    THEN Raise("HTTPException", requests)
    ELSE Return(L(Users(self.state, response.users)), requests)

\* -------------------------------------------------------------------- Poll
\* Poll.__init__ with _finalized taken from multiselect.
Poll_init_SharedFlag(question, duration, multiselect, layout_type, now) ==
    [question |-> question, answers |-> <<>>, duration |-> duration,
     multiselect |-> multiselect, layout_type |-> layout_type,
     message |-> None, state |-> None, finalized |-> multiselect,
     counts |-> None, expiry |-> now + duration]

\* Hours are the unit of time; utils.utcnow() is an argument.
Poll_init(question, duration, multiselect, layout_type, now) ==
    [question |-> question, answers |-> <<>>, duration |-> duration,
     multiselect |-> multiselect, layout_type |-> layout_type,
     message |-> None, state |-> None, finalized |-> FALSE, counts |-> None,
     expiry |-> now + duration]

\* datetime.fromisoformat on the timestamps of the payloads used here,
\* in hours since 1970-01-01T00:00:00+00:00.
fromisoformat(s) ==
    CASE s = "2030-01-01T00:00:00+00:00" -> 525960
      [] s = "2030-01-02T00:00:00+00:00" -> 525984

Poll_from_data(data, message, state, now) ==
    LET answers == [i \in 1..Len(data.answers) |->
                       PollAnswer_init(data.answers[i], message)]
        multiselect == Get(data, "allow_multiselect", FALSE)
        expiry == data.expiry
        layout_type == try_enum(Get(data, "layout_type", 1))
        question == data.question.text
        self == [Poll_init(question, 1, multiselect, layout_type, now)
                    EXCEPT !.answers = answers, !.message = message,
                           !.state = state,
                           !.expiry = fromisoformat(expiry)]
        results == Get(data, "results", None)
    IN  IF TruthyDict(results)
        THEN [self EXCEPT
                !.finalized = results.is_finalized,
                !.counts = L([i \in 1..Len(results.answer_counts) |->
                    PollAnswerCount_init(state, message,
                                         results.answer_counts[i])])]
        ELSE self

Poll_answers(self) == self.answers

Poll_to_dict(self) ==
    [allow_multiselect |-> self.multiselect,
     question |-> [text |-> self.question],
     duration |-> self.duration,
     layout_type |-> self.layout_type.value,
     answers |-> [i \in 1..Len(Poll_answers(self)) |->
                    [poll_media |-> PollAnswer_to_dict(Poll_answers(self)[i])]]]

Poll_expiry(self) == self.expiry

\* `if self._counts:` -- None and the empty list are false.
Poll_answer_counts(self) ==
    IF self.counts # None /\ Len(self.counts.list) > 0
    THEN self.counts
    ELSE None

Poll_is_finalized(self) == self.finalized

\* Poll.add_answer with the new id counted from 0.
Poll_add_answer_ZeroBased(self, text, emoji) ==
    LET answer == PollAnswer_from_params(Len(Poll_answers(self)), text,
                                         emoji, self.message)
    IN  [self EXCEPT !.answers = Append(self.answers, answer)]

Poll_add_answer(self, text, emoji) ==
    LET answer == PollAnswer_from_params(Len(Poll_answers(self)) + 1, text,
                                         emoji, self.message)
    IN  [self EXCEPT !.answers = Append(self.answers, answer)]

Poll_get_answer(self, id) ==
    IF id > Len(Poll_answers(self))
    THEN None
    ELSE LET found == PyIndex(Poll_answers(self), id - 1)
         IN  IF found = IndexError THEN None ELSE found

\* Poll.end up to its await: the message is required, then the request.
Poll_end(self) ==
    IF self.message = None
    THEN Raise("RuntimeError", <<>>)
    ELSE Await(<<end_poll(self.message.channel.id, self.message.id)>>)

\* Poll.end from its await on: the HTTP client raises, or the return
\* statement is evaluated. Message is imported only under TYPE_CHECKING, so
\* the name is unbound when the module runs and looking it up raises
\* NameError before any Message is built: end() never returns a value.
Poll_end_resume(self, requests, response) ==
    IF response = HTTPException
    THEN Raise("HTTPException", requests)
    ELSE Raise("NameError", requests)

\* ------------------------------------------------------------------ inputs
\* The connection state and the messages a poll is fetched with.
ConnectionState == [http |-> "HTTPClient"]
Messages == {[id |-> 10, channel |-> [id |-> 20], state |-> ConnectionState]}

\* utils.utcnow(), in hours since the epoch.
Now == 497000

Questions == {"Pick one"}
Durations == {1, 24}

\* The (text, emoji) arguments of add_answer: no emoji, a standard emoji
\* given as a str, and a custom emoji given as a PartialEmoji.
AnswerArgs ==
    { [text |-> "A", emoji |-> None],
      [text |-> "B", emoji |-> S("thumbsup")],
      [text |-> "C", emoji |-> PartialEmoji("x", N(5))] }

\* Answers of an inbound payload: without emoji, with a standard emoji (id
\* null, or no id), with a custom emoji.
PayloadAnswers ==
    { [answer_id |-> N(1), poll_media |-> [text |-> "A"]],
      [answer_id |-> N(2), poll_media |->
          [text |-> "B", emoji |-> [id |-> None, name |-> "thumbsup"]]],
      [answer_id |-> N(3), poll_media |->
          [text |-> "C", emoji |-> [name |-> "heart"]]],
      [answer_id |-> N(4), poll_media |->
          [text |-> "D", emoji |-> [id |-> S("5"), name |-> "x"]]] }

\* The entries of results.answer_counts, of which a payload carries the
\* first k.
PayloadCounts ==
    << [id |-> N(1), me_voted |-> TRUE, count |-> 3],
       [id |-> N(2), me_voted |-> FALSE, count |-> 1],
       [id |-> S("3"), me_voted |-> FALSE, count |-> 0] >>

\* Sequences over a pool, of length at most n, whose ids all differ.
SeqsUpTo(pool, n) == UNION { [1..k -> pool] : k \in 0..n }
DistinctBy(s, key) ==
    \A i, j \in DOMAIN s : i # j => s[i][key] # s[j][key]

PayloadAnswerLists ==
    { s \in SeqsUpTo(PayloadAnswers, MaxPayloadAnswers) :
        DistinctBy(s, "answer_id") }
PayloadCountLists ==
    { SubSeq(PayloadCounts, 1, k) :
        k \in 0..(IF MaxPayloadAnswers < 3 THEN MaxPayloadAnswers ELSE 3) }

PayloadResults ==
    { [is_finalized |-> f, answer_counts |-> c] :
        f \in BOOLEAN, c \in PayloadCountLists }

\* The optional keys of an inbound payload: a key may be absent.
PayloadOptions ==
    { [x \in {} |-> TRUE],
      [allow_multiselect |-> TRUE, layout_type |-> 2] }

PayloadBase(answers) ==
    [question |-> [text |-> "Pick one"], answers |-> answers,
     expiry |-> "2030-01-01T00:00:00+00:00"]

Payloads ==
    { PayloadBase(a) @@ o : a \in PayloadAnswerLists, o \in PayloadOptions }
    \cup
    { PayloadBase(a) @@ o @@ [results |-> r] :
        a \in PayloadAnswerLists, o \in PayloadOptions, r \in PayloadResults }

\* Arguments of get_answer, users and the responses of the HTTP client.
Ids == (0 - IdSlack)..(MaxAnswers + IdSlack)
Limits == ((0 - LimitSlack)..0) \cup {25} \cup (100..(100 + LimitSlack))
Afters == {MISSING, [id |-> 7]}
VoterResponses == {HTTPException, [users |-> <<[id |-> "81"]>>]}
EndResponses == {HTTPException, [id |-> "10", poll |-> "ended"]}

\* ------------------------------------------------------------------- state
VARIABLES
    poll,     \* the Poll object
    origin,   \* how it was made: "init", or "from_data" with its arguments
    calls,    \* the arguments of the add_answer calls made on it, in order
    call,     \* the call that is running or has just ended, with its outcome
    tasks     \* the bag of the coroutines suspended at their await, each
              \* with the request it has sent

vars == <<poll, origin, calls, call, tasks>>

\* No call is running: the event loop is between two callbacks.
Idle == [op |-> "idle"]

\* No coroutine is suspended.
NoTasks == EmptyBag

\* Poll(question, duration, multiselect=, layout_type=)
InitPoll ==
    \E q \in Questions, d \in Durations, m \in BOOLEAN :
        /\ poll = Poll_init(q, d, m, PollLayoutType_default, Now)
        /\ origin = [by |-> "init", question |-> q, duration |-> d,
                     multiselect |-> m]

\* Poll._from_data(data, message, state), as the message layer calls it.
InitFromData ==
    \E data \in Payloads, message \in Messages :
        /\ poll = Poll_from_data(data, message, message.state, Now)
        /\ origin = [by |-> "from_data", data |-> data, message |-> message]

Init ==
    /\ InitPoll \/ InitFromData
    /\ calls = <<>>
    /\ call = Idle
    /\ tasks = NoTasks

\* poll.add_answer(text=, emoji=); returns the poll.
AddAnswer ==
    /\ call = Idle
    /\ Len(poll.answers) < MaxAnswers
    /\ \E a \in AnswerArgs :
        /\ poll' = Poll_add_answer(poll, a.text, a.emoji)
        /\ calls' = Append(calls, a)
        /\ call' = [op |-> "add_answer", text |-> a.text, emoji |-> a.emoji,
                    outcome |-> Return(poll', <<>>)]
    /\ UNCHANGED <<origin, tasks>>

\* poll.get_answer(id)
GetAnswer ==
    /\ call = Idle
    /\ \E id \in Ids :
        call' = [op |-> "get_answer", id |-> id,
                 outcome |-> Return(Poll_get_answer(poll, id), <<>>)]
    /\ UNCHANGED <<poll, origin, calls, tasks>>

\* poll._to_dict()
ToDict ==
    /\ call = Idle
    /\ call' = [op |-> "to_dict", outcome |-> Return(Poll_to_dict(poll), <<>>)]
    /\ UNCHANGED <<poll, origin, calls, tasks>>

\* Reads of the properties answers, expiry, answer_counts and is_finalized().
Read ==
    /\ call = Idle
    /\ call' = [op |-> "read", answers |-> Poll_answers(poll),
                expiry |-> Poll_expiry(poll),
                answer_counts |-> Poll_answer_counts(poll),
                is_finalized |-> Poll_is_finalized(poll)]
    /\ UNCHANGED <<poll, origin, calls, tasks>>

\* A coroutine runs up to its first await: it has raised, and the call has
\* ended, or it has sent its request and is suspended, next to the ones
\* that are suspended already, and the event loop is free to run other
\* callbacks. At most MaxTasks coroutines are suspended at a time.
Started(frame, outcome) ==
    IF outcome.kind = "await"
    THEN /\ BagCardinality(tasks) < MaxTasks
         /\ tasks' = tasks (+) SetToBag({frame @@ [outcome |-> outcome]})
         /\ call' = call
    ELSE /\ call' = frame @@ [outcome |-> outcome]
         /\ tasks' = tasks

\* One of the suspended coroutines is resumed with the HTTP client's
\* response and runs to its end; responses arrive in any order.
Resumed(task, response, outcome) ==
    /\ call' = [op |-> task.op, index |-> task.index, after |-> task.after,
                limit |-> task.limit, response |-> response,
                outcome |-> outcome]
    /\ tasks' = tasks (-) SetToBag({task})

\* await poll.answers[index].users(after=, limit=), up to its await.
AnswerUsers ==
    /\ call = Idle
    /\ \E i \in 1..Len(poll.answers), after \in Afters, limit \in Limits :
        Started([op |-> "answer_users", index |-> i, after |-> after,
                 limit |-> limit],
                PollAnswer_users(poll.answers[i], after, limit))
    /\ UNCHANGED <<poll, origin, calls>>

\* The response to the request of PollAnswer.users arrives.
AnswerUsersResume ==
    /\ call = Idle
    /\ \E task \in BagToSet(tasks), response \in VoterResponses :
        /\ task.op = "answer_users"
        /\ Resumed(task, response,
                   PollAnswer_users_resume(poll.answers[task.index],
                       task.outcome.requests, response))
    /\ UNCHANGED <<poll, origin, calls>>

\* await poll.answer_counts[index].users(after=, limit=), up to its await.
CountUsers ==
    /\ call = Idle
    /\ Poll_answer_counts(poll) # None
    /\ \E i \in 1..Len(Poll_answer_counts(poll).list), after \in Afters,
          limit \in Limits :
        Started([op |-> "count_users", index |-> i, after |-> after,
                 limit |-> limit],
                PollAnswerCount_users(Poll_answer_counts(poll).list[i],
                                      after, limit))
    /\ UNCHANGED <<poll, origin, calls>>

\* The response to the request of PollAnswerCount.users arrives.
CountUsersResume ==
    /\ call = Idle
    /\ \E task \in BagToSet(tasks), response \in VoterResponses :
        /\ task.op = "count_users"
        /\ Resumed(task, response,
                   PollAnswerCount_users_resume(
                       Poll_answer_counts(poll).list[task.index],
                       task.outcome.requests, response))
    /\ UNCHANGED <<poll, origin, calls>>

\* await poll.end(), up to its await: nothing is assigned to the poll.
End ==
    /\ call = Idle
    /\ Started([op |-> "end", index |-> 0, after |-> MISSING, limit |-> 0],
               Poll_end(poll))
    /\ UNCHANGED <<poll, origin, calls>>

\* Poll.end storing the response on the poll it was called on.
EndResume_MarksFinalized ==
    /\ call = Idle
    /\ \E task \in BagToSet(tasks), response \in EndResponses :
        /\ task.op = "end"
        /\ Resumed(task, response,
                   Poll_end_resume(poll, task.outcome.requests, response))
        /\ poll' = IF response = HTTPException
                   THEN poll
                   ELSE [poll EXCEPT !.finalized = TRUE]
    /\ UNCHANGED <<origin, calls>>

\* The response to the request of Poll.end arrives: nothing is assigned to
\* the poll.
EndResume ==
    /\ call = Idle
    /\ \E task \in BagToSet(tasks), response \in EndResponses :
        /\ task.op = "end"
        /\ Resumed(task, response,
                   Poll_end_resume(poll, task.outcome.requests, response))
    /\ UNCHANGED <<poll, origin, calls>>

\* The call has returned or raised and the event loop goes on.
Finish ==
    /\ call # Idle
    /\ call' = Idle
    /\ UNCHANGED <<poll, origin, calls, tasks>>

Next ==
    \/ AddAnswer
    \/ GetAnswer
    \/ ToDict
    \/ Read
    \/ AnswerUsers
    \/ AnswerUsersResume
    \/ CountUsers
    \/ CountUsersResume
    \/ End
    \/ EndResume
    \/ Finish

Spec == Init /\ [][Next]_vars

\* -------------------------------------------------------------- properties
\* The answer and the tally of the users() call that has ended, and of the
\* users() call that is suspended.
CalledAnswer == poll.answers[call.index]
CalledCount == Poll_answer_counts(poll).list[call.index]
AwaitedAnswer(task) == poll.answers[task.index]
AwaitedCount(task) == Poll_answer_counts(poll).list[task.index]

\* C1: end() on a poll without message, and users() on an answer without
\* message, raise RuntimeError and have sent no request, whatever after and
\* limit are: the call ends with that error and an empty list of requests,
\* and is never suspended waiting for a response.
C1_UnattachedRaisesBeforeRequest ==
    /\ (call.op = "end" /\ poll.message = None)
          => call.outcome = Raise("RuntimeError", <<>>)
    /\ (call.op = "answer_users" /\ CalledAnswer.message = None)
          => call.outcome = Raise("RuntimeError", <<>>)
    /\ \A task \in BagToSet(tasks) :
          /\ task.op = "end" => poll.message # None
          /\ task.op = "answer_users"
                => AwaitedAnswer(task).message # None

\* C1 witness: users() with an out-of-range limit was called on an answer
\* that add_answer put on a locally built poll.
C1_Witness ==
    /\ origin.by = "init"
    /\ call.op = "answer_users"
    /\ CalledAnswer.message = None
    /\ call.limit > 100
    /\ call.outcome.error = "RuntimeError"

\* Exactly one request, get_poll_answer_voters for the message's channel
\* id, the message's id, the answer's id and the limit.
OneVotersRequest(requests, answer, limit) ==
    /\ Len(requests) = 1
    /\ requests[1].route = "get_poll_answer_voters"
    /\ requests[1].channel_id = origin.message.channel.id
    /\ requests[1].message_id = origin.message.id
    /\ requests[1].answer_id = answer.id
    /\ requests[1].limit = limit

\* C2: users(limit) on an answer with a message raises ValueError without
\* a request when limit < 0 or limit > 100; when 0 <= limit <= 100 it sends
\* exactly one get_poll_answer_voters request, for the message's channel
\* id, the message's id and the answer's id, both while it waits for the
\* response and when it has ended.
C2_LimitValidation ==
    /\ \A task \in BagToSet(tasks) :
          task.op = "answer_users" =>
              /\ task.limit >= 0 /\ task.limit <= 100
              /\ OneVotersRequest(task.outcome.requests,
                                  AwaitedAnswer(task), task.limit)
    /\ (call.op = "answer_users" /\ CalledAnswer.message # None) =>
          IF call.limit < 0 \/ call.limit > 100
          THEN call.outcome = Raise("ValueError", <<>>)
          ELSE /\ call.outcome.error \notin {"ValueError", "RuntimeError"}
               /\ OneVotersRequest(call.outcome.requests, CalledAnswer,
                                   call.limit)

\* C2 witness: users(limit=0) on an answer of a fetched poll has sent its
\* request and returned the voters.
C2_Witness ==
    /\ call.op = "answer_users"
    /\ CalledAnswer.message # None
    /\ call.limit = 0
    /\ call.outcome.kind = "return"
    /\ Len(call.outcome.requests) = 1

\* A PollAnswer on the message and with the id of a tally.
AnswerLike(count) ==
    [state |-> count.state, message |-> count.message, id |-> count.id]

\* C3: PollAnswerCount.users does what PollAnswer.users does on the same
\* message, answer id, after, limit and HTTP response: up to the await the
\* same error or the same request, and after it the same error or value.
C3_CountUsersLikeAnswerUsers ==
    /\ \A task \in BagToSet(tasks) :
          task.op = "count_users" =>
              task.outcome
                  = PollAnswer_users(AnswerLike(AwaitedCount(task)),
                                     task.after, task.limit)
    /\ call.op = "count_users" =>
          /\ PollAnswer_users(AnswerLike(CalledCount), call.after,
                              call.limit).kind = "await"
          /\ call.outcome = PollAnswer_users_resume(AnswerLike(CalledCount),
                                call.outcome.requests, call.response)

\* Whether an answer carries the emoji add_answer was given: none when none
\* was given; the name given and no id when a str was given; the name and
\* the id of the emoji object when one was given.
CarriesEmoji(answer, emoji) ==
    LET e == PollAnswer_emoji(answer) IN
    IF emoji = None
    THEN e = None
    ELSE /\ e # None
         /\ e.name = (IF IsStr(emoji) THEN emoji.str ELSE emoji.name)
         /\ e.id = (IF IsEmojiObject(emoji) THEN emoji.id ELSE None)

C5_GetAnswerNoneOutOfRange ==
    (call.op = "get_answer"
        /\ (call.id > Len(poll.answers) \/ call.id <= 0))
      => call.outcome = Return(None, <<>>)

\* C6: a poll made by the constructor has no message, is not finalized and
\* has no answer counts, whatever was called on it since.
C6_LocalPollNeverFinalized ==
    origin.by = "init" =>
        /\ poll.message = None
        /\ Poll_is_finalized(poll) = FALSE
        /\ Poll_answer_counts(poll) = None

\* C6 witness: end() has failed on a locally built poll that holds answers.
C6_Witness ==
    /\ origin.by = "init"
    /\ Len(poll.answers) > 0
    /\ call.op = "end"
    /\ call.outcome.kind = "raise"

\* C7: a poll from a payload with results has is_finalized() equal to the
\* payload's is_finalized and answer_counts a list with one entry per entry
\* of results.answer_counts, in order, with its id, count and me_voted, also
\* when there are no entries; without results it is not finalized and
\* answer_counts is None.
C7_ResultsParsed ==
    origin.by = "from_data" =>
        IF "results" \in DOMAIN origin.data
        THEN LET entries == origin.data.results.answer_counts
                 counts == Poll_answer_counts(poll)
             IN  /\ Poll_is_finalized(poll) = origin.data.results.is_finalized
                 /\ counts # None
                 /\ Len(counts.list) = Len(entries)
                 /\ \A i \in 1..Len(entries) :
                       /\ counts.list[i].id = PyInt(entries[i].id)
                       /\ counts.list[i].count = entries[i].count
                       /\ counts.list[i].me_voted = entries[i].me_voted
        ELSE /\ Poll_is_finalized(poll) = FALSE
             /\ Poll_answer_counts(poll) = None

\* Whether the outbound poll_media has the text and emoji of the inbound
\* one: the same name, the same id when the inbound carried one, and no
\* emoji key when the inbound carried no emoji.
SameMedia(outbound, inbound) ==
    /\ outbound.text = inbound.text
    /\ IF Get(inbound, "emoji", None) # None
       THEN /\ "emoji" \in DOMAIN outbound
            /\ outbound.emoji.name = inbound.emoji.name
            /\ Get(inbound.emoji, "id", None) # None
                  => /\ "id" \in DOMAIN outbound.emoji
                     /\ outbound.emoji.id.int = PyInt(inbound.emoji.id)
       ELSE "emoji" \notin DOMAIN outbound

C9_EndLeavesPollUnchanged ==
    [][((call'.op = "end" /\ call.op # "end")
          \/ (\E task \in BagToSet(tasks') :
                 /\ task.op = "end"
                 /\ CopiesIn(task, tasks') > CopiesIn(task, tasks)))
        => poll' = poll]_vars

\* C9 witness: end() has sent its request on a fetched poll that is not
\* finalized, the HTTP client has answered, the call has ended (raising
\* NameError at its return statement), and the poll still is not finalized.
C9_Witness ==
    /\ call.op = "end"
    /\ call.outcome.error = "NameError"
    /\ Len(call.outcome.requests) = 1
    /\ poll.message # None
    /\ Poll_is_finalized(poll) = FALSE

\* C10: an answer that get_answer(k) returns has id k, and no two answers
\* of a poll have the same id.
C10_GetAnswerById ==
    /\ (call.op = "get_answer" /\ call.outcome.value # None)
          => call.outcome.value.id = call.id
    /\ \A i, j \in 1..Len(poll.answers) :
          i # j => poll.answers[i].id # poll.answers[j].id
=============================================================================
